---- MODULE Spec2Model ----
(***************************************************************************)
(* FrameOS (src/app/page.tsx): the session state held by Page(), the       *)
(* configuration / undo handlers, the image batch handlers and the three   *)
(* asynchronous export handlers.  Every synchronous stretch of a handler   *)
(* (from its call, or from the resolution of an await, up to the next      *)
(* await or its return) is one action.  React commits the state updates of *)
(* one such stretch before the next event is handled, so a handler that is *)
(* called always closes over the state of the latest render; a handler     *)
(* that is suspended in an await keeps the values it closed over.          *)
(***************************************************************************)
EXTENDS Integers, Sequences, FiniteSets, TLC

VARIABLES
    imageUrls,      \* useState<string[]>          page.tsx:52
    activeIndex,    \* useState(0)                 page.tsx:53
    config,         \* useState<FrameConfig>       page.tsx:54
    undoStack,      \* useState<FrameConfig[]>     page.tsx:55
    exporting,      \* useState(false)             page.tsx:56
    exportingAll,   \* useState(false)             page.tsx:57
    copying,        \* useState(false)             page.tsx:58
    exports,        \* suspended handleExport invocations
    batch,          \* the suspended handleExportAll invocation, or Idle
    copy,           \* the suspended handleCopyToClipboard invocation, or Idle
    uploads,        \* suspended handleUpload invocations
    downloads,      \* files delivered by a.click(), oldest first
    clipboard,      \* content of the system clipboard
    last,           \* history: what the latest step did
    nOps,           \* history: export operations started so far
    nEdits,         \* history: updateConfig calls so far
    nUploads,       \* history: handleUpload calls so far
    nEvents,        \* history: user events and failures so far
    editTrail,      \* history: configurations of the current run of edits
    undone,         \* history: handleUndo calls since the latest edit
    failedOps,      \* history: ids of the export operations that failed
    batchLog,       \* history: outcome of the latest handleExportAll
    sumPassed,      \* history: files passed to handleUpload so far
    seqUploads,     \* history: uploads so far ran one at a time, no removal
    keyTarget       \* history: tagName of the target of the latest key press

vars == << imageUrls, activeIndex, config, undoStack, exporting, exportingAll,
           copying, exports, batch, copy, uploads, downloads, clipboard, last,
           nOps, nEdits, nUploads, nEvents, editTrail, undone, failedOps,
           batchLog, sumPassed, seqUploads, keyTarget >>

(***************************************************************************)
(* Program constants.                                                      *)
(***************************************************************************)
MAX_IMAGES == 10
UNDO_LIMIT == 20
PIXEL_RATIO == 2

(***************************************************************************)
(* Bounds of the model.                                                    *)
(***************************************************************************)
MaxEvents == 4       \* user events and failures in a behaviour of Spec
UndoEdits == 25      \* updateConfig calls in a behaviour of SpecUndo
UndoBranch == 2      \* edits of SpecUndo that choose among several change-sets

LoadedEvents == 2   \* user events and failures in a behaviour of SpecLoaded
BatchEvents == 2    \* user events and failures in a behaviour of SpecBatch
NavEvents == 4      \* user events in a behaviour of SpecNav
StoreEvents == 4    \* handleUpload calls, removals and failures in SpecStore
LiveEvents == 2     \* user events and failures in a behaviour of SpecLive
GuardEvents == 3    \* user events in a behaviour of SpecGuard
KeyEvents == 3      \* key presses, removals and failures in a behaviour of SpecKeys

Min(a, b) == IF a < b THEN a ELSE b
Max(a, b) == IF a > b THEN a ELSE b

(***************************************************************************)
(* lib/types (appended to src/components/TabletFrame.tsx).                 *)
(***************************************************************************)
FrameStyle == {"macos", "windows", "minimal", "browser", "phone", "tablet"}
Theme == {"light", "dark"}
Gradient == {"purple-blue", "orange-pink", "green-teal", "slate"}
PhonePreset ==
    {"free", "appstore-67", "appstore-65", "appstore-55", "playstore", "playstore-xl"}

PHONE_PRESETS ==
    ("appstore-67" :> [width |-> 1290, height |-> 2796]) @@
    ("appstore-65" :> [width |-> 1242, height |-> 2688]) @@
    ("appstore-55" :> [width |-> 1242, height |-> 2208]) @@
    ("playstore" :> [width |-> 1080, height |-> 1920]) @@
    ("playstore-xl" :> [width |-> 1080, height |-> 2400])

DEFAULT_CONFIG ==
    [ frameStyle |-> "macos", theme |-> "dark", gradient |-> "purple-blue",
      padding |-> 32, borderRadius |-> 12, imageScale |-> 100,
      bgColor |-> "#7c3aed", useCustomBg |-> FALSE, phonePreset |-> "free" ]

(***************************************************************************)
(* JavaScript helpers.                                                     *)
(***************************************************************************)
\* Array.prototype.slice(start) for an integer start.
SliceFrom(s, start) ==
    LET n == Len(s)
        from == IF start < 0 THEN Max(n + start, 0) ELSE Min(start, n)
    IN  SubSeq(s, from + 1, n)

\* Array.prototype.slice(0, end) for an integer end.
SliceTo(s, end) ==
    LET n == Len(s)
        to == IF end < 0 THEN Max(n + end, 0) ELSE Min(end, n)
    IN  SubSeq(s, 1, to)

\* { ...c, ...updates }
MergeConfig(c, updates) ==
    [f \in (DOMAIN c) \cup (DOMAIN updates) |->
        IF f \in DOMAIN updates THEN updates[f] ELSE c[f]]

\* Array.prototype.filter((_, i) => i !== idx), idx a 0-based index.
FilterOutIndex(s, idx) ==
    LET keep == {j \in 1..Len(s) : j - 1 # idx}
        pos(k) == CHOOSE j \in keep : Cardinality({h \in keep : h < j}) = k - 1
    IN  [k \in 1..Cardinality(keep) |-> s[pos(k)]]

Idle == [pc |-> "idle"]
NoBatch == [outcome |-> "none"]

(***************************************************************************)
(* Derived values of a render (page.tsx:197-199, ControlsPanel.tsx:67-68). *)
(***************************************************************************)
\* activeImageUrl = imageUrls[activeIndex] ?? null; FramePreview, and with it
\* previewRef.current, exists exactly when activeImageUrl is not null.
PreviewMounted == activeIndex >= 0 /\ activeIndex < Len(imageUrls)
isBusy == exporting \/ exportingAll \/ copying
hasImage == Len(imageUrls) > 0
canAddMore == Len(imageUrls) < MAX_IMAGES
canUndo == Len(undoStack) > 0

Init ==
    /\ imageUrls = << >>
    /\ activeIndex = 0
    /\ config = DEFAULT_CONFIG
    /\ undoStack = << >>
    /\ exporting = FALSE
    /\ exportingAll = FALSE
    /\ copying = FALSE
    /\ exports = {}
    /\ batch = Idle
    /\ copy = Idle
    /\ uploads = {}
    /\ downloads = << >>
    /\ clipboard = << >>
    /\ last = "init"
    /\ nOps = 0
    /\ nEdits = 0
    /\ nUploads = 0
    /\ nEvents = 0
    /\ editTrail = << DEFAULT_CONFIG >>
    /\ undone = 0
    /\ failedOps = {}
    /\ batchLog = NoBatch
    /\ sumPassed = 0
    /\ seqUploads = TRUE
    /\ keyTarget = "BODY"

\* A user event or a failure spends one unit of the event budget; an await
\* that resolves is free.  The keys of these steps are pressed with the focus
\* on the document body.
Spend == nEvents < MaxEvents /\ nEvents' = nEvents + 1 /\ keyTarget' = "BODY"
Free == UNCHANGED nEvents /\ keyTarget' = "BODY"

storeVars == << imageUrls, activeIndex, uploads, nUploads, sumPassed, seqUploads >>
configVars == << config, undoStack, nEdits, editTrail, undone >>
exportVars == << exporting, exportingAll, copying, exports, batch, copy, downloads,
                 clipboard, nOps, failedOps, batchLog >>

\* The elements whose key presses the keydown handler leaves alone
\* (page.tsx:186-187), here by textareas alone.
TextEntryTextareaOnly(tag) == tag = "TEXTAREA"

\* The elements whose key presses the keydown handler leaves alone
\* (page.tsx:186-187).
TextEntry(tag) == tag \in {"INPUT", "TEXTAREA"}

\* The early return of the keydown handler (page.tsx:187).
KeyIgnored(label) ==
    /\ last' = label
    /\ UNCHANGED << storeVars, configVars, exportVars >>

(***************************************************************************)
(* Configuration and undo (page.tsx:67-78).                                *)
(***************************************************************************)
\* The values each control of ControlsPanel can pass to its on*Change prop.
Updates ==
    [frameStyle : FrameStyle] \cup [theme : Theme] \cup [gradient : Gradient]
    \cup [padding : {8 + 4 * k : k \in 0..14}]
    \cup [borderRadius : {2 * k : k \in 0..16}]
    \cup [imageScale : {50 + 5 * k : k \in 0..10}]
    \cup [bgColor : {"#7c3aed", "#000000"}]
    \cup [useCustomBg : BOOLEAN] \cup [phonePreset : PhonePreset]

\* The Store Format section is rendered for the phone frame only, the colour
\* picker for a solid background only, the gradient swatches otherwise.
ControlShown(updates) ==
    /\ "phonePreset" \in DOMAIN updates => config.frameStyle = "phone"
    /\ "bgColor" \in DOMAIN updates => config.useCustomBg
    /\ "gradient" \in DOMAIN updates => ~config.useCustomBg

\* An updateConfig that trims the history to UNDO_LIMIT entries before pushing.
UndoStackAfterEditWide(s, c, updates) == Append(SliceFrom(s, -UNDO_LIMIT), c)

\* An updateConfig that pushes the configuration the edit produces.
UndoStackAfterEditPost(s, c, updates) ==
    Append(SliceFrom(s, -(UNDO_LIMIT - 1)), [f \in DOMAIN c |->
        IF f \in DOMAIN updates THEN updates[f] ELSE c[f]])

\* setUndoStack((s) => [...s.slice(-(UNDO_LIMIT - 1)), config])
UndoStackAfterEdit(s, c, updates) == Append(SliceFrom(s, -(UNDO_LIMIT - 1)), c)

\* A setConfig that spreads the change-set first: (c) => ({ ...updates, ...c }).
ConfigAfterEditCurrentWins(c, updates) == MergeConfig(updates, c)

\* setConfig((c) => ({ ...c, ...updates }))
ConfigAfterEdit(c, updates) == MergeConfig(c, updates)

\* updateConfig(updates), called from an on*Change prop of ControlsPanel.
UpdateConfig(updates) ==
    /\ updates \in Updates
    /\ ControlShown(updates)
    /\ undoStack' = UndoStackAfterEdit(undoStack, config, updates)
    /\ config' = ConfigAfterEdit(config, updates)
    /\ nEdits' = nEdits + 1
    /\ editTrail' = IF undone = 0 /\ editTrail # << >>
                      THEN Append(editTrail, config')
                      ELSE IF undoStack = << >> THEN << config, config' >>
                                                ELSE << >>
    /\ undone' = 0
    /\ last' = "updateConfig"
    /\ UNCHANGED << storeVars, exportVars >>

\* setUndoStack((s) => { if (s.length === 0) return s;
\*                       setConfig(s[s.length - 1]); return s.slice(0, -1); })
UndoStackAfterUndo(s) == IF Len(s) = 0 THEN s ELSE SliceTo(s, -1)
\* A handleUndo that jumps back to the oldest entry.
ConfigAfterUndoOldest(s, c) == IF Len(s) = 0 THEN c ELSE s[1]

ConfigAfterUndo(s, c) == IF Len(s) = 0 THEN c ELSE s[Len(s)]

handleUndo ==
    /\ undoStack' = UndoStackAfterUndo(undoStack)
    /\ config' = ConfigAfterUndo(undoStack, config)
    /\ undone' = IF undone <= Len(editTrail) THEN undone + 1 ELSE undone
    /\ UNCHANGED << nEdits, editTrail, storeVars, exportVars >>

\* Ctrl/Cmd+Z (page.tsx:186-187, 191).
KeyUndo ==
    IF TextEntry(keyTarget')
    THEN KeyIgnored("ignored.undo")
    ELSE /\ handleUndo
         /\ last' = "undo.key"

\* The Undo button of ControlsPanel (ControlsPanel.tsx:349, 390-392).
ClickUndo ==
    /\ hasImage /\ canUndo /\ ~isBusy
    /\ handleUndo
    /\ last' = "undo.button"

(***************************************************************************)
(* SpecUndo: an editing session without images.  Edits walk the padding    *)
(* slider; the first UndoBranch edits also choose a frame style or repeat  *)
(* the current theme, and may follow an undo.                              *)
(***************************************************************************)
SliderPadding(k) == 8 + 4 * (k % 15)

UndoUpdates ==
    IF nEdits < UndoBranch
    THEN { [padding |-> SliderPadding(nEdits)], [frameStyle |-> "phone"],
           [theme |-> config.theme] }
    ELSE { [padding |-> SliderPadding(nEdits)] }

UndoEdit ==
    /\ nEdits < UndoEdits
    /\ undone = 0 \/ undoStack = << >> \/ nEdits < UndoBranch
    /\ \E u \in UndoUpdates : UpdateConfig(u)

NextUndo ==
    \/ Free /\ UndoEdit
    \/ Free /\ KeyUndo

SpecUndo == Init /\ [][NextUndo]_vars

(***************************************************************************)
(* Image batch (page.tsx:29-36, 83-102, 184-195, 322-361).                 *)
(***************************************************************************)
\* The k files a file picker or a drop hands to the k-th handleUpload call.
NewFiles(call, k) == [j \in 1..k |-> (call - 1) * MAX_IMAGES + j]

\* fileToDataUrl: the file's content as a self-contained data URL.
fileToDataUrl(f) == << "data:", f >>

\* A handleUpload that offers MAX_IMAGES slots whatever the batch holds.
UploadSlotsAlways(len) == MAX_IMAGES

\* const slots = isFirstBatch ? MAX_IMAGES : MAX_IMAGES - imageUrls.length
UploadSlots(len) == IF len = 0 THEN MAX_IMAGES ELSE MAX_IMAGES - len

\* The updater of setImageUrls in handleUpload.
ImagesAfterUpload(prev, isFirstBatch, newDataUrls) ==
    IF isFirstBatch THEN newDataUrls ELSE prev \o newDataUrls
\* A handleUpload that always selects the first image.
ActiveAfterUploadFirst(prev, isFirstBatch) == 0

ActiveAfterUpload(prev, isFirstBatch) == IF isFirstBatch THEN 0 ELSE Len(prev)

\* history: a running handleExportAll saw the batch change under it.
MarkBatchChanged ==
    batch' = IF batch.pc = "idle" THEN batch ELSE [batch EXCEPT !.changed = TRUE]

\* handleUpload(files) up to its await; files has k >= 1 entries and at most
\* MAX_IMAGES (ImageUploader.processFiles, InlineUploadTrigger.handleChange).
handleUpload(k) ==
    LET files == NewFiles(nUploads + 1, k)
        isFirstBatch == Len(imageUrls) = 0
        slots == UploadSlots(Len(imageUrls))
    IN  /\ k \in 1..MAX_IMAGES
        /\ nUploads' = nUploads + 1
        /\ sumPassed' = sumPassed + k
        /\ seqUploads' = (seqUploads /\ uploads = {})
        /\ IF slots <= 0
             THEN /\ uploads' = uploads
                  /\ last' = "upload.full"
             ELSE /\ uploads' = uploads \cup
                        { [ id |-> nUploads + 1, isFirstBatch |-> isFirstBatch,
                            toAdd |-> SliceTo(files, slots) ] }
                  /\ last' = "upload.start"
        /\ UNCHANGED << imageUrls, activeIndex, configVars, exportVars >>

\* ImageUploader replaces the preview while no image is shown (page.tsx:305,
\* 378); "Add more" is rendered while 0 < imageCount < maxImages.
UploadTrigger(k) ==
    /\ ~PreviewMounted \/ (hasImage /\ canAddMore)
    /\ handleUpload(k)

\* handleUpload after await Promise.all(toAdd.map(fileToDataUrl)) resolved.
UploadResolve(u) ==
    LET newDataUrls == [j \in 1..Len(u.toAdd) |-> fileToDataUrl(u.toAdd[j])]
    IN  /\ u \in uploads
        /\ imageUrls' = ImagesAfterUpload(imageUrls, u.isFirstBatch, newDataUrls)
        /\ activeIndex' = ActiveAfterUpload(imageUrls, u.isFirstBatch)
        /\ uploads' = uploads \ {u}
        /\ MarkBatchChanged
        /\ last' = "upload.done"
        /\ UNCHANGED << nUploads, sumPassed, seqUploads, configVars,
                        exporting, exportingAll, copying, exports, copy, downloads,
                        clipboard, nOps, failedOps, batchLog >>

\* A FileReader failed: Promise.all rejects and handleUpload ends there.
UploadReject(u) ==
    /\ u \in uploads
    /\ uploads' = uploads \ {u}
    /\ seqUploads' = FALSE
    /\ last' = "upload.fail"
    /\ UNCHANGED << imageUrls, activeIndex, nUploads, sumPassed,
                    configVars, exportVars >>

\* The updater of setImageUrls in handleRemoveActive, idx the activeIndex the
\* handler closed over, and the updater of setActiveIndex nested in it.
ImagesAfterRemove(prev, idx) == FilterOutIndex(prev, idx)
ActiveAfterRemove(idx, next) == Min(idx, Max(0, Len(next) - 1))

\* The Remove button, rendered while imageCount > 0 (ControlsPanel.tsx:78-114).
ClickRemove ==
    /\ hasImage
    /\ imageUrls' = ImagesAfterRemove(imageUrls, activeIndex)
    /\ activeIndex' = ActiveAfterRemove(activeIndex, imageUrls')
    /\ seqUploads' = FALSE
    /\ MarkBatchChanged
    /\ last' = "remove"
    /\ UNCHANGED << uploads, nUploads, sumPassed, configVars, exporting,
                    exportingAll, copying, exports, copy, downloads, clipboard,
                    nOps, failedOps, batchLog >>

NavigateLeft(i) == Max(0, i - 1)
NavigateRight(i, len) == Min(len - 1, i + 1)

\* A navigation that also resets the undo history.
NavigateResetting(to, label) ==
    /\ activeIndex' = to
    /\ last' = label
    /\ undoStack' = << >>
    /\ UNCHANGED << imageUrls, uploads, nUploads, sumPassed, seqUploads,
                    config, nEdits, editTrail, undone, exportVars >>

Navigate(to, label) ==
    /\ activeIndex' = to
    /\ last' = label
    /\ UNCHANGED << imageUrls, uploads, nUploads, sumPassed, seqUploads,
                    configVars, exportVars >>

\* keydown of an arrow key (page.tsx:185-189).
KeyArrowLeft ==
    IF TextEntry(keyTarget')
    THEN KeyIgnored("ignored.left")
    ELSE Navigate(NavigateLeft(activeIndex), "key.left")

KeyArrowRight ==
    IF TextEntry(keyTarget')
    THEN KeyIgnored("ignored.right")
    ELSE Navigate(NavigateRight(activeIndex, Len(imageUrls)), "key.right")

\* The thumbnail strip is rendered under the preview while imageUrls.length > 1.
StripShown == PreviewMounted /\ Len(imageUrls) > 1

ClickPrev ==
    /\ StripShown /\ activeIndex # 0
    /\ Navigate(NavigateLeft(activeIndex), "click.prev")

ClickNext ==
    /\ StripShown /\ activeIndex # Len(imageUrls) - 1
    /\ Navigate(NavigateRight(activeIndex, Len(imageUrls)), "click.next")

ClickThumbnail(i) ==
    /\ StripShown /\ i \in 0..(Len(imageUrls) - 1)
    /\ Navigate(i, "click.thumbnail")

(***************************************************************************)
(* Export pipeline (page.tsx:108-174).                                     *)
(***************************************************************************)
\* An exportOpts that looks at the preset only.
ExportOptsPresetOnly(preset, frameStyle) ==
    IF preset # "free"
    THEN [ canvasWidth |-> PHONE_PRESETS[preset].width,
           canvasHeight |-> PHONE_PRESETS[preset].height, pixelRatio |-> 0 ]
    ELSE [ canvasWidth |-> 0, canvasHeight |-> 0, pixelRatio |-> PIXEL_RATIO ]

\* exportOpts of handleExport and handleExportAll; an option that is not
\* passed to toPng is 0.
ExportOpts(preset, frameStyle) ==
    IF preset # "free" /\ frameStyle = "phone"
    THEN [ canvasWidth |-> PHONE_PRESETS[preset].width,
           canvasHeight |-> PHONE_PRESETS[preset].height, pixelRatio |-> 0 ]
    ELSE [ canvasWidth |-> 0, canvasHeight |-> 0, pixelRatio |-> PIXEL_RATIO ]

\* A handleCopyToClipboard that honours the store format like handleExport.
CopyOptsPreset == ExportOpts(config.phonePreset, config.frameStyle)

\* The options handleCopyToClipboard passes to toPng.
CopyOpts == [ canvasWidth |-> 0, canvasHeight |-> 0, pixelRatio |-> PIXEL_RATIO ]

\* A download name that uses the 0-based index.
FileNameZeroBased(n) == << "frameos-", n - 1, ".png" >>

\* `frameos-${n}.png`
FileName(n) == << "frameos-", n, ".png" >>

\* What FramePreview renders, and toPng reads, when toPng is called.
Shot == [ image |-> imageUrls[activeIndex + 1], config |-> config ]
NoShot == [ image |-> << >>, config |-> << >> ]
NoOpts == [ canvasWidth |-> 0, canvasHeight |-> 0, pixelRatio |-> 0 ]

\* A guard that looks at the batch only.
NothingToExportEmptyOnly == Len(imageUrls) = 0

\* The guard all three export handlers open with.
NothingToExport == ~PreviewMounted \/ Len(imageUrls) = 0

InFlight ==
    {o.id : o \in exports}
    \cup (IF batch.pc = "idle" THEN {} ELSE {batch.id})
    \cup (IF copy.pc = "idle" THEN {} ELSE {copy.id})

exportRest == << exportingAll, copying, batch, copy, clipboard, batchLog >>

\* The handleExport a render creates: the values its closure holds
\* (page.tsx:108, 126).
ExportOfRender(urls, idx, c) ==
    [ len |-> Len(urls), activeIndex |-> idx, phonePreset |-> c.phonePreset,
      frameStyle |-> c.frameStyle ]

\* A handleExportRef that keeps the handleExport of the first render:
\* useRef(handleExport) with no assignment after it.
handleExportRefMount == ExportOfRender(<< >>, 0, DEFAULT_CONFIG)

\* handleExportRef.current = handleExport, on every render (page.tsx:179-181).
handleExportRef == ExportOfRender(imageUrls, activeIndex, config)

\* A call of the handleExport h, up to await import('html-to-image');
\* previewRef.current is read at the call.
CallHandleExport(h) ==
    IF ~PreviewMounted \/ h.len = 0
    THEN /\ last' = "export.noop"
         /\ UNCHANGED << storeVars, configVars, exportVars >>
    ELSE /\ exporting' = TRUE
         /\ exports' = exports \cup
               { [ id |-> nOps + 1, pc |-> "import", activeIndex |-> h.activeIndex,
                   phonePreset |-> h.phonePreset,
                   frameStyle |-> h.frameStyle,
                   startConfig |-> config, startImage |-> imageUrls[activeIndex + 1],
                   opts |-> NoOpts, shot |-> NoShot ] }
         /\ nOps' = nOps + 1
         /\ last' = "export.start"
         /\ UNCHANGED << storeVars, configVars, exportRest, downloads, failedOps >>

\* The handleExport of the latest render, as ControlsPanel receives it in
\* onExport (page.tsx:425).
handleExport == CallHandleExport(ExportOfRender(imageUrls, activeIndex, config))

\* Whether the Download button passes a click on (ControlsPanel.tsx:336).
DownloadEnabled == hasImage /\ ~isBusy

ClickDownload ==
    /\ DownloadEnabled
    /\ handleExport

\* Whether the keydown handler passes an E on (page.tsx:190).
KeyExportEnabled == TRUE

\* keydown of E without Ctrl or Cmd (page.tsx:186-187, 190).
KeyE ==
    IF TextEntry(keyTarget')
    THEN KeyIgnored("ignored.e")
    ELSE /\ KeyExportEnabled
         /\ CallHandleExport(handleExportRef)

\* handleExport without its finally block: the flag stays as it is.
ExportFinallyStuck(o) ==
    /\ exporting' = exporting
    /\ exports' = exports \ {o}

\* The finally block of handleExport.
ExportFinally(o) ==
    /\ exporting' = FALSE
    /\ exports' = exports \ {o}

\* handleExport from the resolution of the import to await toPng(...);
\* toPng rejects when previewRef.current is null.
ExportCallToPng(o) ==
    /\ o \in exports /\ o.pc = "import"
    /\ IF ~PreviewMounted
         THEN /\ ExportFinally(o)
              /\ failedOps' = failedOps \cup {o.id}
              /\ last' = "export.fail"
         ELSE /\ exports' = (exports \ {o}) \cup
                    { [o EXCEPT !.pc = "capturing",
                                !.opts = ExportOpts(o.phonePreset, o.frameStyle),
                                !.shot = Shot] }
              /\ last' = "export.capture"
              /\ UNCHANGED << exporting, failedOps >>
    /\ UNCHANGED << storeVars, configVars, exportRest, downloads, nOps >>

\* toPng resolved: a.click(), then finally.
ExportResolve(o) ==
    /\ o \in exports /\ o.pc = "capturing"
    /\ downloads' = Append(downloads,
          [ op |-> o.id, kind |-> "single", name |-> FileName(o.activeIndex + 1),
            opts |-> o.opts, shot |-> o.shot ])
    /\ ExportFinally(o)
    /\ last' = "export.done"
    /\ UNCHANGED << storeVars, configVars, exportRest, nOps, failedOps >>

\* toPng rejected: finally.
ExportReject(o) ==
    /\ o \in exports /\ o.pc = "capturing"
    /\ ExportFinally(o)
    /\ failedOps' = failedOps \cup {o.id}
    /\ last' = "export.fail"
    /\ UNCHANGED << storeVars, configVars, exportRest, downloads, nOps >>

batchRest == << exporting, copying, exports, copy, clipboard >>

\* handleExportAll up to await import('html-to-image').
handleExportAll ==
    IF NothingToExport
    THEN /\ last' = "exportAll.noop"
         /\ UNCHANGED << storeVars, configVars, exportVars >>
    ELSE /\ exportingAll' = TRUE
         /\ batch' = [ pc |-> "import", id |-> nOps + 1, saved |-> activeIndex,
                       len |-> Len(imageUrls), phonePreset |-> config.phonePreset,
                       frameStyle |-> config.frameStyle, i |-> 0,
                       opts |-> NoOpts, shot |-> NoShot, changed |-> FALSE ]
         /\ nOps' = nOps + 1
         /\ last' = "exportAll.start"
         /\ UNCHANGED << storeVars, configVars, batchRest, downloads, failedOps,
                         batchLog >>

\* "All (n)" is rendered while imageCount > 1 (ControlsPanel.tsx:349, 369-370).
ClickExportAll ==
    /\ hasImage /\ Len(imageUrls) > 1 /\ ~isBusy
    /\ handleExportAll

\* handleExportAll without the restore: the index stays where the loop left it.
RestoredIndexLoop(b) == b.i

\* The index setActiveIndex receives in the finally block of handleExportAll.
RestoredIndex(b) == b.saved

\* A handleExportAll whose finally block leaves the busy flag set.
BatchFinallyBusy(outcome) ==
    /\ activeIndex' = RestoredIndex(batch)
    /\ exportingAll' = exportingAll
    /\ batch' = Idle
    /\ batchLog' = [ outcome |-> outcome, id |-> batch.id, saved |-> batch.saved,
                     len |-> batch.len, changed |-> batch.changed ]

\* The finally block of handleExportAll.
BatchFinally(outcome) ==
    /\ activeIndex' = RestoredIndex(batch)
    /\ exportingAll' = FALSE
    /\ batch' = Idle
    /\ batchLog' = [ outcome |-> outcome, id |-> batch.id, saved |-> batch.saved,
                     len |-> batch.len, changed |-> batch.changed ]

\* A loop that reads the length of the batch as it is at each test.
LoopBoundLive(b) == Len(imageUrls)

\* imageUrls.length in the loop of handleExportAll: the length of the array the
\* handler closed over when it was called.
LoopBound(b) == b.len

\* The loop head for index i: setActiveIndex(i) and the 220 ms wait, or the
\* end of the loop.
BatchLoop(i) ==
    IF i < LoopBound(batch)
    THEN /\ activeIndex' = i
         /\ batch' = [batch EXCEPT !.pc = "settle", !.i = i]
         /\ UNCHANGED << exportingAll, batchLog >>
    ELSE BatchFinally("completed")

\* handleExportAll from the resolution of the import to the first wait.
BatchEnterLoop ==
    /\ batch.pc = "import"
    /\ BatchLoop(0)
    /\ last' = "exportAll.activate"
    /\ UNCHANGED << imageUrls, uploads, nUploads, sumPassed, seqUploads,
                    configVars, batchRest, downloads, nOps, failedOps >>

\* An exportOpts computed anew from the configuration at each capture.
BatchOptsLive(b) == ExportOpts(config.phonePreset, config.frameStyle)

\* exportOpts of handleExportAll, computed once before the loop from the
\* configuration the handler closed over.
BatchOpts(b) == ExportOpts(b.phonePreset, b.frameStyle)

\* After the 220 ms wait: break without a preview, else await toPng(...).
BatchCallToPng ==
    /\ batch.pc = "settle"
    /\ IF ~PreviewMounted
         THEN /\ BatchFinally("aborted")
              /\ last' = "exportAll.abort"
         ELSE /\ batch' = [batch EXCEPT !.pc = "capturing",
                              !.opts = BatchOpts(batch),
                              !.shot = Shot]
              /\ last' = "exportAll.capture"
              /\ UNCHANGED << activeIndex, exportingAll, batchLog >>
    /\ UNCHANGED << imageUrls, uploads, nUploads, sumPassed, seqUploads,
                    configVars, batchRest, downloads, nOps, failedOps >>

\* A loop that waits 350 ms after every download, the last one included.
GapFollowsAlways(i, len) == TRUE

\* if (i < imageUrls.length - 1) await new Promise((r) => setTimeout(r, 350))
GapFollows(i, len) == i < len - 1

\* toPng resolved: a.click(), then the 350 ms wait unless i is the last index.
BatchResolve ==
    /\ batch.pc = "capturing"
    /\ downloads' = Append(downloads,
          [ op |-> batch.id, kind |-> "batch", name |-> FileName(batch.i + 1),
            opts |-> batch.opts, shot |-> batch.shot ])
    /\ IF GapFollows(batch.i, LoopBound(batch))
         THEN /\ batch' = [batch EXCEPT !.pc = "gap"]
              /\ UNCHANGED << activeIndex, exportingAll, batchLog >>
         ELSE BatchLoop(batch.i + 1)
    /\ last' = "exportAll.download"
    /\ UNCHANGED << imageUrls, uploads, nUploads, sumPassed, seqUploads,
                    configVars, batchRest, nOps, failedOps >>

\* After the 350 ms wait: i++ and the next loop head.
BatchNext ==
    /\ batch.pc = "gap"
    /\ BatchLoop(batch.i + 1)
    /\ last' = "exportAll.activate"
    /\ UNCHANGED << imageUrls, uploads, nUploads, sumPassed, seqUploads,
                    configVars, batchRest, downloads, nOps, failedOps >>

\* toPng rejected: finally.
BatchReject ==
    /\ batch.pc = "capturing"
    /\ BatchFinally("failed")
    /\ failedOps' = failedOps \cup {batch.id}
    /\ last' = "exportAll.fail"
    /\ UNCHANGED << imageUrls, uploads, nUploads, sumPassed, seqUploads,
                    configVars, batchRest, downloads, nOps >>

copyRest == << exporting, exportingAll, exports, batch, batchLog, downloads >>

\* handleCopyToClipboard up to await import('html-to-image').
handleCopyToClipboard ==
    IF NothingToExport
    THEN /\ last' = "copy.noop"
         /\ UNCHANGED << storeVars, configVars, exportVars >>
    ELSE /\ copying' = TRUE
         /\ copy' = [ pc |-> "import", id |-> nOps + 1, opts |-> NoOpts,
                      shot |-> NoShot ]
         /\ nOps' = nOps + 1
         /\ last' = "copy.start"
         /\ UNCHANGED << storeVars, configVars, copyRest, clipboard, failedOps >>

\* The Copy button (ControlsPanel.tsx:349-351).
ClickCopy ==
    /\ hasImage /\ ~isBusy
    /\ handleCopyToClipboard

\* The finally block of handleCopyToClipboard.
CopyFinally ==
    /\ copying' = FALSE
    /\ copy' = Idle

CopyFail ==
    /\ CopyFinally
    /\ failedOps' = failedOps \cup {copy.id}
    /\ last' = "copy.fail"
    /\ UNCHANGED clipboard

\* From the resolution of the import to await toPng(previewRef.current, ...).
CopyCallToPng ==
    /\ copy.pc = "import"
    /\ IF ~PreviewMounted
         THEN CopyFail
         ELSE /\ copy' = [copy EXCEPT !.pc = "capturing", !.opts = CopyOpts,
                                      !.shot = Shot]
              /\ last' = "copy.capture"
              /\ UNCHANGED << copying, clipboard, failedOps >>
    /\ UNCHANGED << storeVars, configVars, copyRest, nOps >>

\* toPng resolved: fetch(dataUrl), blob(), then await clipboard.write([item]).
CopyWrite ==
    /\ copy.pc = "capturing"
    /\ copy' = [copy EXCEPT !.pc = "writing"]
    /\ last' = "copy.write"
    /\ UNCHANGED << storeVars, configVars, copyRest, copying, clipboard, nOps,
                    failedOps >>

\* clipboard.write resolved: finally.
CopyResolve ==
    /\ copy.pc = "writing"
    /\ clipboard' = << [ type |-> "image/png", op |-> copy.id, opts |-> copy.opts,
                         shot |-> copy.shot ] >>
    /\ CopyFinally
    /\ last' = "copy.done"
    /\ UNCHANGED << storeVars, configVars, copyRest, nOps, failedOps >>

\* toPng, fetch or clipboard.write rejected: finally.
CopyReject ==
    /\ copy.pc \in {"capturing", "writing"}
    /\ CopyFail
    /\ UNCHANGED << storeVars, configVars, copyRest, nOps >>

(***************************************************************************)
(* Spec: a session from the first render.                                  *)
(***************************************************************************)
UploadSizes == {1, 2}

SpecUpdates ==
    { [frameStyle |-> "phone"], [frameStyle |-> "tablet"],
      [phonePreset |-> "appstore-67"], [padding |-> 16] }

Upload == \E k \in UploadSizes : UploadTrigger(k)
UploadDone == \E u \in uploads : UploadResolve(u)
UploadFail == \E u \in uploads : UploadReject(u)
Thumbnail == \E i \in 0..(MAX_IMAGES - 1) : ClickThumbnail(i)
Edit == \E u \in SpecUpdates : UpdateConfig(u)
ExportCapture == \E o \in exports : ExportCallToPng(o)
ExportDone == \E o \in exports : ExportResolve(o)
ExportFail == \E o \in exports : ExportReject(o)

Next ==
    \* What the user does.
    \/ Spend /\ Upload
    \/ Spend /\ ClickRemove
    \/ Spend /\ KeyArrowLeft
    \/ Spend /\ KeyArrowRight
    \/ Spend /\ ClickPrev
    \/ Spend /\ ClickNext
    \/ Spend /\ Thumbnail
    \/ Spend /\ Edit
    \/ Spend /\ KeyUndo
    \/ Spend /\ ClickUndo
    \/ Spend /\ ClickDownload
    \/ Spend /\ KeyE
    \/ Spend /\ ClickExportAll
    \/ Spend /\ ClickCopy
    \* A file read, a capture or a clipboard write that fails.
    \/ Spend /\ UploadFail
    \/ Spend /\ ExportFail
    \/ Spend /\ BatchReject
    \/ Spend /\ CopyReject
    \* An await that resolves.
    \/ Free /\ UploadDone
    \/ Free /\ ExportCapture
    \/ Free /\ ExportDone
    \/ Free /\ BatchEnterLoop
    \/ Free /\ BatchCallToPng
    \/ Free /\ BatchResolve
    \/ Free /\ BatchNext
    \/ Free /\ CopyCallToPng
    \/ Free /\ CopyWrite
    \/ Free /\ CopyResolve

Spec == Init /\ [][Next]_vars

(***************************************************************************)
(* SpecLoaded: a session that continues after the user has set up the      *)
(* frame (a frame style, for the phone frame a store format, and possibly  *)
(* another frame style after that), uploaded n images in one go and        *)
(* selected one of them.  nEvents and nOps count from there.               *)
(***************************************************************************)
LoadedEdits ==
    { << >> }
    \cup { << [frameStyle |-> f] >> : f \in FrameStyle }
    \cup { << [frameStyle |-> "phone"], [phonePreset |-> p] >> : p \in PhonePreset }
    \cup { << [frameStyle |-> "phone"], [phonePreset |-> p], [frameStyle |-> f] >> :
              p \in PhonePreset \ {"free"}, f \in FrameStyle \ {"phone"} }

\* The state updateConfig(us[1]), ..., updateConfig(us[Len(us)]) leave.
RECURSIVE Edited(_)
Edited(us) ==
    IF us = << >>
    THEN [ config |-> DEFAULT_CONFIG, undoStack |-> << >>,
           editTrail |-> << DEFAULT_CONFIG >> ]
    ELSE LET before == Edited(SubSeq(us, 1, Len(us) - 1))
             updates == us[Len(us)]
             after == ConfigAfterEdit(before.config, updates)
         IN  [ config |-> after,
               undoStack |-> UndoStackAfterEdit(before.undoStack, before.config, updates),
               editTrail |-> Append(before.editTrail, after) ]

\* Every set-up with one or two images.
LoadedSessions == { << n, us >> : n \in 1..2, us \in LoadedEdits }

\* The state after the set-up of one of the sessions, the first or the last
\* image selected.
Loaded(sessions) ==
    /\ \E ld \in sessions :
        LET n == ld[1]
            e == Edited(ld[2])
            files == NewFiles(1, n)
        IN  /\ imageUrls = ImagesAfterUpload(<< >>, TRUE,
                                [j \in 1..n |-> fileToDataUrl(files[j])])
            /\ activeIndex \in {ActiveAfterUpload(<< >>, TRUE), n - 1}
            /\ config = e.config
            /\ undoStack = e.undoStack
            /\ editTrail = e.editTrail
            /\ nEdits = Len(ld[2])
            /\ undone = 0
            /\ nUploads = 1
            /\ sumPassed = n
            /\ seqUploads = TRUE
            /\ last = IF activeIndex # 0 THEN "click.thumbnail"
                      ELSE IF ld[2] # << >> THEN "updateConfig" ELSE "upload.done"
    /\ exporting = FALSE
    /\ exportingAll = FALSE
    /\ copying = FALSE
    /\ exports = {}
    /\ batch = Idle
    /\ copy = Idle
    /\ uploads = {}
    /\ downloads = << >>
    /\ clipboard = << >>
    /\ nOps = 0
    /\ nEvents = 0
    /\ failedOps = {}
    /\ batchLog = NoBatch
    /\ keyTarget = "BODY"

InitLoaded == Loaded(LoadedSessions)

SpendLoaded == nEvents < LoadedEvents /\ nEvents' = nEvents + 1 /\ keyTarget' = "BODY"

NextLoaded ==
    \/ SpendLoaded /\ Upload
    \/ SpendLoaded /\ ClickRemove
    \/ SpendLoaded /\ KeyArrowLeft
    \/ SpendLoaded /\ KeyArrowRight
    \/ SpendLoaded /\ ClickPrev
    \/ SpendLoaded /\ ClickNext
    \/ SpendLoaded /\ Thumbnail
    \/ SpendLoaded /\ Edit
    \/ SpendLoaded /\ KeyUndo
    \/ SpendLoaded /\ ClickUndo
    \/ SpendLoaded /\ ClickDownload
    \/ SpendLoaded /\ KeyE
    \/ SpendLoaded /\ ClickExportAll
    \/ SpendLoaded /\ ClickCopy
    \/ SpendLoaded /\ UploadFail
    \/ SpendLoaded /\ ExportFail
    \/ SpendLoaded /\ BatchReject
    \/ SpendLoaded /\ CopyReject
    \/ Free /\ UploadDone
    \/ Free /\ ExportCapture
    \/ Free /\ ExportDone
    \/ Free /\ BatchEnterLoop
    \/ Free /\ BatchCallToPng
    \/ Free /\ BatchResolve
    \/ Free /\ BatchNext
    \/ Free /\ CopyCallToPng
    \/ Free /\ CopyWrite
    \/ Free /\ CopyResolve

SpecLoaded == InitLoaded /\ [][NextLoaded]_vars

(***************************************************************************)
(* SpecBatch: batch exports over a batch of 1..MAX_IMAGES images in the    *)
(* default set-up, next to the events that can run into one: arrow keys,   *)
(* uploads, removals and a failing capture.                                *)
(***************************************************************************)
BatchSessions == { << n, << >> >> : n \in 1..MAX_IMAGES }

InitBatch == Loaded(BatchSessions)

SpendBatch == nEvents < BatchEvents /\ nEvents' = nEvents + 1 /\ keyTarget' = "BODY"

NextBatch ==
    \/ SpendBatch /\ ClickExportAll
    \/ SpendBatch /\ KeyArrowLeft
    \/ SpendBatch /\ KeyArrowRight
    \/ SpendBatch /\ Upload
    \/ SpendBatch /\ ClickRemove
    \/ SpendBatch /\ BatchReject
    \/ Free /\ UploadDone
    \/ Free /\ BatchEnterLoop
    \/ Free /\ BatchCallToPng
    \/ Free /\ BatchResolve
    \/ Free /\ BatchNext

SpecBatch == InitBatch /\ [][NextBatch]_vars

(***************************************************************************)
(* SpecNav: navigation on a batch of one to four images in the default     *)
(* set-up, next to batch exports and removals.                             *)
(***************************************************************************)
NavImages == 1..4

NavSessions == { << n, << >> >> : n \in NavImages }

InitNav == Loaded(NavSessions)

SpendNav == nEvents < NavEvents /\ nEvents' = nEvents + 1 /\ keyTarget' = "BODY"

NextNav ==
    \/ SpendNav /\ KeyArrowLeft
    \/ SpendNav /\ KeyArrowRight
    \/ SpendNav /\ ClickPrev
    \/ SpendNav /\ ClickNext
    \/ SpendNav /\ ClickRemove
    \/ SpendNav /\ ClickExportAll
    \/ Free /\ BatchEnterLoop
    \/ Free /\ BatchCallToPng
    \/ Free /\ BatchResolve
    \/ Free /\ BatchNext

SpecNav == InitNav /\ [][NextNav]_vars

(***************************************************************************)
(* SpecKeys: the four keyboard shortcuts pressed with the focus on any of  *)
(* the elements below, from every set-up of SpecLoaded, next to removals   *)
(* and the steps of the exports the E key starts.                          *)
(***************************************************************************)
KeyTargets == {"BODY", "BUTTON", "INPUT", "TEXTAREA"}

InitKeys == Loaded(LoadedSessions)

SpendKey(tag) == nEvents < KeyEvents /\ nEvents' = nEvents + 1 /\ keyTarget' = tag

NextKeys ==
    \/ \E tag \in KeyTargets : SpendKey(tag) /\ KeyArrowLeft
    \/ \E tag \in KeyTargets : SpendKey(tag) /\ KeyArrowRight
    \/ \E tag \in KeyTargets : SpendKey(tag) /\ KeyE
    \/ \E tag \in KeyTargets : SpendKey(tag) /\ KeyUndo
    \/ SpendKey("BODY") /\ ClickRemove
    \/ SpendKey("BODY") /\ ExportFail
    \/ Free /\ ExportCapture
    \/ Free /\ ExportDone

SpecKeys == InitKeys /\ [][NextKeys]_vars

(***************************************************************************)
(* SpecLive: the three export operations on a batch of one to three images *)
(* in the default set-up, next to uploads and removals, where every import,*)
(* wait, capture and clipboard write that is pending and does not fail     *)
(* resolves in the end.                                                    *)
(***************************************************************************)
LiveSessions == { << n, << >> >> : n \in 1..3 }

InitLive == Loaded(LiveSessions)

SpendLive == nEvents < LiveEvents /\ nEvents' = nEvents + 1 /\ keyTarget' = "BODY"

NextLive ==
    \/ SpendLive /\ ClickDownload
    \/ SpendLive /\ KeyE
    \/ SpendLive /\ ClickExportAll
    \/ SpendLive /\ ClickCopy
    \/ SpendLive /\ Upload
    \/ SpendLive /\ ClickRemove
    \/ SpendLive /\ ExportFail
    \/ SpendLive /\ BatchReject
    \/ SpendLive /\ CopyReject
    \/ Free /\ UploadDone
    \/ Free /\ ExportCapture
    \/ Free /\ ExportDone
    \/ Free /\ BatchEnterLoop
    \/ Free /\ BatchCallToPng
    \/ Free /\ BatchResolve
    \/ Free /\ BatchNext
    \/ Free /\ CopyCallToPng
    \/ Free /\ CopyWrite
    \/ Free /\ CopyResolve

\* Pending promises of the export handlers settle.
AwaitsResolve ==
    /\ WF_vars(Free /\ ExportCapture)
    /\ WF_vars(Free /\ ExportDone)
    /\ WF_vars(Free /\ BatchEnterLoop)
    /\ WF_vars(Free /\ BatchCallToPng)
    /\ WF_vars(Free /\ BatchResolve)
    /\ WF_vars(Free /\ BatchNext)
    /\ WF_vars(Free /\ CopyCallToPng)
    /\ WF_vars(Free /\ CopyWrite)
    /\ WF_vars(Free /\ CopyResolve)

SpecLive == InitLive /\ [][NextLive]_vars /\ AwaitsResolve

(***************************************************************************)
(* SpecGuard: the triggers of the three export operations on a batch of    *)
(* one to three images in the default set-up, next to removals, which can  *)
(* leave the session without a preview.                                    *)
(***************************************************************************)
InitGuard == Loaded(LiveSessions)

SpendGuard == nEvents < GuardEvents /\ nEvents' = nEvents + 1 /\ keyTarget' = "BODY"

NextGuard ==
    \/ SpendGuard /\ ClickDownload
    \/ SpendGuard /\ KeyE
    \/ SpendGuard /\ ClickExportAll
    \/ SpendGuard /\ ClickCopy
    \/ SpendGuard /\ ClickRemove
    \/ Free /\ ExportCapture
    \/ Free /\ ExportDone
    \/ Free /\ BatchEnterLoop
    \/ Free /\ BatchCallToPng
    \/ Free /\ BatchResolve
    \/ Free /\ BatchNext
    \/ Free /\ CopyCallToPng
    \/ Free /\ CopyWrite
    \/ Free /\ CopyResolve

SpecGuard == InitGuard /\ [][NextGuard]_vars

(***************************************************************************)
(* SpecStore: handleUpload as the image store's addImages, called with any *)
(* file list of the sizes below whatever the batch holds, next to removals *)
(* and failing file reads.                                                 *)
(***************************************************************************)
StoreSizes == {1, 3, 4, 6, MAX_IMAGES}

SpendStore == nEvents < StoreEvents /\ nEvents' = nEvents + 1 /\ keyTarget' = "BODY"

AddImages == \E k \in StoreSizes : handleUpload(k)

NextStore ==
    \/ SpendStore /\ AddImages
    \/ SpendStore /\ ClickRemove
    \/ SpendStore /\ UploadFail
    \/ Free /\ UploadDone

SpecStore == Init /\ [][NextStore]_vars

(***************************************************************************)
(* Claims checked under Spec.                                              *)
(***************************************************************************)
\* C1: at most one export-type operation (single export, batch export,
\* clipboard copy) is in flight at any time; a trigger issued while one is
\* running starts no new operation.
C1_AtMostOneInFlight == Cardinality(InFlight) <= 1

\* The ids of the operations that fail in a step, and the busy flag each owns.
FailingNow == failedOps' \ failedOps
OwnFlagCleared(id) ==
    /\ id \in {o.id : o \in exports} => ~exporting'
    /\ (batch.pc # "idle" /\ id = batch.id) => ~exportingAll'
    /\ (copy.pc # "idle" /\ id = copy.id) => ~copying'

\* C2: when the capture (or the clipboard write) of an export operation fails,
\* the operation ends in that step with its busy flag cleared, no download and
\* no clipboard content is produced, the operation is not in flight any more
\* (no retry), and no busy flag stays set once nothing is in flight, so that a
\* new operation can be started.
C2_FailureIsTerminal ==
    [][ FailingNow # {} =>
          /\ FailingNow \subseteq InFlight
          /\ FailingNow \cap InFlight' = {}
          /\ \A id \in FailingNow : OwnFlagCleared(id)
          /\ downloads' = downloads
          /\ clipboard' = clipboard
          /\ nOps' = nOps
          /\ (InFlight' = {} => ~isBusy') ]_vars

\* C2 witness: a batch export failed at a capture and a later operation runs.
C2_Witness ==
    /\ batchLog.outcome = "failed"
    /\ batchLog.id \in failedOps
    /\ ~exportingAll
    /\ \E id \in InFlight : id > batchLog.id

BatchStarts == batch.pc = "idle" /\ batch'.pc # "idle"
BatchEnds == batch.pc # "idle" /\ batch'.pc = "idle"

\* C3: when a batch export finishes (completed, aborted or failed) activeIndex
\* is again the value it had when that batch export started, whatever the
\* user navigated to in between.
C3_ActiveIndexRestored ==
    [][ /\ BatchStarts => batch'.saved = activeIndex
        /\ (batch.pc # "idle" /\ batch'.pc # "idle") => batch'.saved = batch.saved
        /\ BatchEnds => activeIndex' = batch.saved /\ batchLog'.saved = batch.saved
      ]_vars

\* C3 witness: a batch export over two images, started at index 0, has just
\* delivered its last file, which it captured at index 1.
C3_Witness ==
    /\ last = "exportAll.download"
    /\ batchLog.outcome = "completed"
    /\ batchLog.len = 2
    /\ batchLog.saved = 0
    /\ activeIndex = 0
    /\ batch.pc = "idle"

StoreLabels ==
    { "key.left", "key.right", "click.prev", "click.next", "click.thumbnail",
      "upload.start", "upload.full", "upload.done", "upload.fail", "remove" }

\* C9: navigation, upload and removal of the active image change neither the
\* configuration nor the undo history; the history grows by configuration
\* edits only.
C9_StoreLeavesConfigAlone ==
    [][ /\ last' \in StoreLabels => (config' = config /\ undoStack' = undoStack)
        /\ Len(undoStack') > Len(undoStack) => last' = "updateConfig" ]_vars

\* C9 witness: the active image was just removed while the history holds an
\* entry and the configuration is an edited one.
C9_Witness ==
    /\ last = "remove"
    /\ undoStack # << >>
    /\ config # DEFAULT_CONFIG

\* C19: a batch export that finds no preview when an iteration is about to
\* capture ends in that step: no error, no capture, no download, activeIndex
\* back at the saved value and the busy flag cleared; and no download is ever
\* delivered by an operation that is not in flight.
C19_AbortsQuietly ==
    /\ [][ (batch.pc = "settle" /\ ~PreviewMounted /\ batch'.pc # "settle") =>
             /\ batch'.pc = "idle"
             /\ batchLog'.outcome = "aborted"
             /\ batchLog'.id = batch.id
             /\ failedOps' = failedOps
             /\ downloads' = downloads
             /\ activeIndex' = batch.saved
             /\ ~exportingAll' ]_vars
    /\ [][ downloads' # downloads =>
             /\ Len(downloads') = Len(downloads) + 1
             /\ downloads'[Len(downloads')].op \in InFlight ]_vars

\* C19 witness: the batch was emptied under a running batch export, which has
\* just stopped.
C19_Witness ==
    /\ last = "exportAll.abort"
    /\ imageUrls = << >>
    /\ batchLog.outcome = "aborted"
    /\ batchLog.id \notin failedOps
    /\ batch.pc = "idle"
    /\ ~exportingAll
    /\ activeIndex = batchLog.saved

(***************************************************************************)
(* Claims checked under SpecUndo.  editTrail[1] is the configuration at    *)
(* the latest edit made on an empty history, editTrail[k + 1] the          *)
(* configuration edit k of the run produced; it is << >> while the run is  *)
(* not one that started on an empty history.                               *)
(***************************************************************************)
TrailEdits == Len(editTrail) - 1
UndoneEdits == Min(undone, TrailEdits)

\* C6: after N <= UNDO_LIMIT edits made from an empty history, k undos leave
\* the configuration edit N - k produced (each undo steps back one edit), N
\* undos leave the configuration from before the first edit with an empty
\* history, and one further undo changes neither.
C6_UndoStepsBack ==
    (editTrail # << >> /\ TrailEdits <= UNDO_LIMIT) =>
        /\ config = editTrail[TrailEdits + 1 - UndoneEdits]
        /\ undoStack = SubSeq(editTrail, 1, TrailEdits - UndoneEdits)

\* C6 witness: UNDO_LIMIT edits, then UNDO_LIMIT + 1 undos.
C6_Witness ==
    /\ TrailEdits = UNDO_LIMIT
    /\ undone = UNDO_LIMIT + 1
    /\ last = "undo.key"
    /\ config = editTrail[1]
    /\ config # editTrail[UNDO_LIMIT + 1]
    /\ undoStack = << >>

\* C7: the undo history never holds more than UNDO_LIMIT entries, and after
\* N >= UNDO_LIMIT edits it holds the pre-edit configurations of the latest
\* UNDO_LIMIT edits, oldest first (edits 6..25 after 25 edits).
C7_HistoryBounded ==
    /\ Len(undoStack) <= UNDO_LIMIT
    /\ (editTrail # << >> /\ undone = 0 /\ TrailEdits >= UNDO_LIMIT) =>
           undoStack = SubSeq(editTrail, TrailEdits - UNDO_LIMIT + 1, TrailEdits)

\* C7 witness: 25 edits from an empty history.
C7_Witness ==
    /\ TrailEdits = 25
    /\ undone = 0
    /\ Len(undoStack) = UNDO_LIMIT
    /\ undoStack[1] = editTrail[6]
    /\ undoStack[UNDO_LIMIT] = editTrail[25]

\* C8: an edit pushes exactly one entry, the configuration in effect right
\* before the edit, onto the entries the history held (less the oldest one at
\* capacity), also when the edit changes no field.
C8_PreEditSnapshot ==
    [][ nEdits' # nEdits =>
          /\ nEdits' = nEdits + 1
          /\ undoStack' =
                Append(IF Len(undoStack) < UNDO_LIMIT THEN undoStack
                                                      ELSE Tail(undoStack), config)
      ]_vars

\* C8 witness: two consecutive edits, the second of which changed no field.
C8_Witness ==
    /\ last = "updateConfig"
    /\ Len(undoStack) >= 2
    /\ undone = 0
    /\ undoStack[Len(undoStack)] = config
    /\ undoStack[Len(undoStack) - 1] # config

(***************************************************************************)
(* Claims checked under SpecBatch.                                         *)
(***************************************************************************)
\* The names of the files operation id has delivered so far, oldest first.
DeliveredNames(id) ==
    LET mine == SelectSeq(downloads, LAMBDA d : d.op = id)
    IN  [k \in 1..Len(mine) |-> mine[k].name]

\* The names frameos-1.png .. frameos-m.png.
C4_Names(m) == [k \in 1..m |-> << "frameos-", k, ".png" >>]

\* Indices a running batch export has delivered.
BatchDelivered == IF batch.pc = "gap" THEN batch.i + 1 ELSE batch.i

\* C4: a batch export over n images that met no capture failure and no change
\* of the batch ends completed with exactly n downloads, frameos-1.png up to
\* frameos-n.png in this order; while it runs it has delivered the files of
\* the indices below the current one, in ascending order.
C4_BatchDelivers ==
    /\ (batch.pc # "idle" /\ ~batch.changed) =>
           DeliveredNames(batch.id) = C4_Names(BatchDelivered)
    /\ (batchLog.outcome # "none" /\ ~batchLog.changed
            /\ batchLog.id \notin failedOps) =>
           /\ batchLog.outcome = "completed"
           /\ DeliveredNames(batchLog.id) = C4_Names(batchLog.len)

\* C4 witness: a batch export over MAX_IMAGES images has completed undisturbed.
C4_Witness ==
    /\ batchLog.outcome = "completed"
    /\ ~batchLog.changed
    /\ batchLog.len = MAX_IMAGES
    /\ Len(DeliveredNames(batchLog.id)) = MAX_IMAGES
    /\ batch.pc = "idle"

\* The batch export activates an index, delivers a file in a step.
C23_Activates == batch'.pc = "settle" /\ (batch.pc # "settle" \/ batch'.i # batch.i)
C23_Delivers ==
    /\ Len(downloads') = Len(downloads) + 1
    /\ downloads'[Len(downloads')].kind = "batch"

\* C23: an iteration of the batch export runs activation of i, the 220 ms
\* wait, the capture, the download of file i + 1 and, unless i is the last
\* index, the 350 ms wait: a capture starts only out of the wait that follows
\* the activation of the same index, a file is delivered only by the capture
\* of its index, index 0 is activated first and index i + 1 only after the
\* wait that follows the download of file i + 1, and no wait follows the last
\* download.
C23_IterationOrder ==
    /\ [][ C23_Activates =>
             /\ activeIndex' = batch'.i
             /\ \/ batch.pc = "import" /\ batch'.i = 0
                \/ /\ batch.pc = "gap" /\ batch'.i = batch.i + 1
                   /\ DeliveredNames(batch.id) = C4_Names(batch.i + 1) ]_vars
    /\ [][ (batch'.pc = "capturing" /\ batch.pc # "capturing") =>
             /\ batch.pc = "settle" /\ batch'.i = batch.i
             /\ downloads' = downloads ]_vars
    /\ [][ C23_Delivers =>
             /\ batch.pc = "capturing"
             /\ downloads'[Len(downloads')].op = batch.id
             /\ downloads'[Len(downloads')].name = << "frameos-", batch.i + 1, ".png" >>
             /\ IF batch.i < batch.len - 1
                  THEN batch'.pc = "gap" /\ batch'.i = batch.i
                  ELSE batch'.pc = "idle" /\ batchLog'.outcome = "completed" ]_vars
    /\ [][ (batch'.pc = "gap" /\ batch.pc # "gap") => C23_Delivers ]_vars

\* C23 witness: the third index of a batch of more than three images has just
\* been activated, after the downloads of the first two files.
C23_Witness ==
    /\ last = "exportAll.activate"
    /\ batch.pc = "settle" /\ batch.i = 2 /\ batch.len > 3
    /\ activeIndex = 2
    /\ DeliveredNames(batch.id) = C4_Names(2)

(***************************************************************************)
(* Claims checked under SpecLoaded.                                        *)
(***************************************************************************)
\* The store sizes as the specification lists them (0 = option not passed).
C5_Requested(c) ==
    LET exact(w, h) == [ canvasWidth |-> w, canvasHeight |-> h, pixelRatio |-> 0 ]
    IN  IF c.frameStyle = "phone" /\ c.phonePreset # "free"
        THEN CASE c.phonePreset = "appstore-67" -> exact(1290, 2796)
               [] c.phonePreset = "appstore-65" -> exact(1242, 2688)
               [] c.phonePreset = "appstore-55" -> exact(1242, 2208)
               [] c.phonePreset = "playstore" -> exact(1080, 1920)
               [] c.phonePreset = "playstore-xl" -> exact(1080, 2400)
        ELSE [ canvasWidth |-> 0, canvasHeight |-> 0, pixelRatio |-> 2 ]

\* C5: the options a single export passes to toPng are the exact width and
\* height of the store format when the configuration at the start of the
\* export had the phone frame and a store format other than free, and a pixel
\* ratio of 2 with no exact size in every other configuration.
C5_ExactPixels ==
    \A o \in exports : o.pc = "capturing" => o.opts = C5_Requested(o.startConfig)

\* C5 witness: a single export started with a store format stored under a
\* frame other than the phone is capturing at pixel ratio 2, and the
\* configuration has been edited since it started.
C5_Witness ==
    \E o \in exports :
        /\ o.pc = "capturing"
        /\ o.startConfig.frameStyle # "phone"
        /\ o.startConfig.phonePreset = "playstore-xl"
        /\ o.opts.pixelRatio = 2
        /\ o.opts.canvasWidth = 0
        /\ config # o.startConfig

\* The labels of the steps of handleCopyToClipboard.
CopyLabels == { "copy.start", "copy.noop", "copy.capture", "copy.write",
                "copy.done", "copy.fail" }

C18_TwoX == [ canvasWidth |-> 0, canvasHeight |-> 0, pixelRatio |-> 2 ]

\* C18: a clipboard copy asks toPng for pixel ratio 2 and no exact size
\* whatever the frame style and store format, leaves one image item as the
\* whole clipboard content, and no step of it delivers a download.
C18_ClipboardTwoX ==
    /\ [](/\ copy.pc \in {"capturing", "writing"} => copy.opts = C18_TwoX
          /\ Len(clipboard) <= 1
          /\ \A j \in 1..Len(clipboard) :
                 clipboard[j].type = "image/png" /\ clipboard[j].opts = C18_TwoX)
    /\ [][ last' \in CopyLabels => downloads' = downloads ]_vars
    /\ [][ last' = "copy.done" => Len(clipboard') = 1 /\ clipboard'[1].op = copy.id ]_vars

\* C18 witness: a copy made of the phone frame with a store format is on the
\* clipboard, captured at pixel ratio 2, and nothing was downloaded.
C18_Witness ==
    /\ last = "copy.done"
    /\ Len(clipboard) = 1
    /\ clipboard[1].shot.config.frameStyle = "phone"
    /\ clipboard[1].shot.config.phonePreset = "appstore-55"
    /\ clipboard[1].opts.pixelRatio = 2
    /\ clipboard[1].opts.canvasWidth = 0
    /\ downloads = << >>

(***************************************************************************)
(* Claims checked under SpecStore.                                         *)
(***************************************************************************)
\* C10: after handleUpload calls that ran one at a time, with no removal and
\* no failed read, the batch holds min(MAX_IMAGES, files passed) images; a
\* call on a full batch changes neither the batch nor the active index and
\* reads no file.
C10_BatchSaturates ==
    /\ [](seqUploads /\ uploads = {} =>
            Len(imageUrls) = Min(MAX_IMAGES, sumPassed))
    /\ [][ (nUploads' # nUploads /\ Len(imageUrls) = MAX_IMAGES) =>
             UNCHANGED << imageUrls, activeIndex, uploads >> ]_vars

\* C10 witness: three calls, one after the other; the second overfilled the
\* batch and the third met a full batch.
C10_Witness ==
    /\ seqUploads /\ uploads = {}
    /\ nUploads = 3
    /\ sumPassed > MAX_IMAGES + 1
    /\ Len(imageUrls) = MAX_IMAGES
    /\ imageUrls[MAX_IMAGES] = fileToDataUrl(MAX_IMAGES + 7)
    /\ last = "upload.full"

\* C11: the batch never holds more than MAX_IMAGES images, also when uploads
\* overlap.
C11_BatchWithinLimit == Len(imageUrls) <= MAX_IMAGES

\* The upload that completes in a step, and the data URLs it read.
CompletedUpload == CHOOSE u \in uploads : u \notin uploads'
C13_Added(u) == [j \in 1..Len(u.toAdd) |-> << "data:", u.toAdd[j] >>]

\* C13: an upload called on an empty batch leaves its images as the whole
\* batch with activeIndex 0; an upload called on a non-empty batch appends its
\* images to the L entries the batch holds and sets activeIndex to L, the
\* index of the first of them.
C13_UploadPlacesImages ==
    [][ last' = "upload.done" =>
          /\ uploads' = uploads \ {CompletedUpload}
          /\ Len(C13_Added(CompletedUpload)) >= 1
          /\ IF CompletedUpload.isFirstBatch
               THEN /\ imageUrls' = C13_Added(CompletedUpload)
                    /\ activeIndex' = 0
               ELSE /\ imageUrls' = imageUrls \o C13_Added(CompletedUpload)
                    /\ activeIndex' = Len(imageUrls)
                    /\ imageUrls'[activeIndex' + 1] = C13_Added(CompletedUpload)[1]
      ]_vars

\* C13 witness: a second upload has just appended its images to the three of
\* the first one and selected the first of them.
C13_Witness ==
    /\ last = "upload.done"
    /\ seqUploads /\ uploads = {}
    /\ nUploads = 2
    /\ activeIndex = 3
    /\ Len(imageUrls) > 4
    /\ imageUrls[1] = << "data:", 1 >>
    /\ imageUrls[4] = << "data:", MAX_IMAGES + 1 >>

(***************************************************************************)
(* Further claims checked under Spec.                                      *)
(***************************************************************************)
\* C12: while the batch is not empty, activeIndex is one of its indices.
C12_ActiveIndexInRange ==
    Len(imageUrls) > 0 => (0 <= activeIndex /\ activeIndex <= Len(imageUrls) - 1)

\* s is an initial segment of t.
IsPrefix(s, t) == Len(s) <= Len(t) /\ SubSeq(t, 1, Len(s)) = s

\* t is s with at most one entry taken out, the others in their order.
IsSubsequenceLessOne(s, t) ==
    \/ t = s
    \/ \E j \in 1..Len(s) : t = SubSeq(s, 1, j - 1) \o SubSeq(s, j + 1, Len(s))

\* C16: when an upload completes the batch as it was is a prefix of the batch
\* it leaves, whatever else is in flight, and a removal keeps the remaining
\* entries in their order.
C16_InsertionOrderKept ==
    [][ /\ last' = "upload.done" => IsPrefix(imageUrls, imageUrls')
        /\ last' = "remove" => IsSubsequenceLessOne(imageUrls, imageUrls')
      ]_vars

\* C17: what a single export has toPng capture is the image and the
\* configuration of the moment the export started, and the one file it
\* delivers is named after the 1-based position active at that moment.
C17_CapturesStartState ==
    /\ \A o \in exports : o.pc = "capturing" =>
           /\ o.shot.image = o.startImage
           /\ o.shot.config = o.startConfig
    /\ \A j \in 1..Len(downloads) : downloads[j].kind = "single" =>
           /\ downloads[j].name[1] = "frameos-"
           /\ downloads[j].name[2] \in 1..MAX_IMAGES
           /\ \A h \in 1..Len(downloads) :
                  downloads[h].op = downloads[j].op => h = j

\* The batch without the entry at the 0-based index idx.
C14_Without(s, idx) == SubSeq(s, 1, idx) \o SubSeq(s, idx + 2, Len(s))

\* C14: a removal deletes exactly the entry at activeIndex, so that a batch of
\* length 1 becomes empty with no active image, and leaves activeIndex at
\* min(activeIndex, new length - 1): L - 2 when the last of L > 1 entries was
\* active, unchanged and designating the following entry otherwise.
C14_RemoveDeletesActive ==
    [][ last' = "remove" =>
          /\ Len(imageUrls') = Len(imageUrls) - 1
          /\ imageUrls' = C14_Without(imageUrls, activeIndex)
          /\ IF Len(imageUrls') = 0
               THEN ~PreviewMounted'
               ELSE activeIndex' = Min(activeIndex, Len(imageUrls') - 1)
      ]_vars

\* C26: while no busy flag is set no export operation is in flight, and each
\* flag stays set as long as an operation of its kind is running.
C26_BusyFlagAccurate ==
    /\ ~isBusy => InFlight = {}
    /\ exports # {} => exporting
    /\ batch.pc # "idle" => exportingAll
    /\ copy.pc # "idle" => copying

\* C30: activeIndex is never negative, whatever the batch holds.
C30_ActiveIndexNonNegative == activeIndex >= 0

(***************************************************************************)
(* Claims checked under SpecNav.                                           *)
(***************************************************************************)
\* i brought into lo..hi.
C15_Clamp(i, lo, hi) == IF i < lo THEN lo ELSE IF i > hi THEN hi ELSE i

\* C15: on a non-empty batch ArrowLeft and the prev button move activeIndex
\* down by one, ArrowRight and the next button up by one, the result clamped
\* to the indices of the batch as it is at the event.
C15_NavigationClamped ==
    [][ Len(imageUrls) > 0 =>
          /\ last' \in {"key.left", "click.prev"} =>
                activeIndex' = C15_Clamp(activeIndex - 1, 0, Len(imageUrls) - 1)
          /\ last' \in {"key.right", "click.next"} =>
                activeIndex' = C15_Clamp(activeIndex + 1, 0, Len(imageUrls) - 1)
      ]_vars

(***************************************************************************)
(* Claims checked under SpecKeys.                                          *)
(***************************************************************************)

C22_KeysUseLatest ==
    /\ [][ last' \in {"export.start", "export.noop"} =>
             IF PreviewMounted /\ Len(imageUrls) > 0
             THEN /\ last' = "export.start"
                  /\ \E o \in exports' :
                        /\ o.id = nOps + 1
                        /\ exports' = exports \cup {o}
                        /\ o.activeIndex = activeIndex
                        /\ o.phonePreset = config.phonePreset
                        /\ o.frameStyle = config.frameStyle
             ELSE UNCHANGED << exports, exporting, nOps >> ]_vars
    /\ [][ last' = "undo.key" =>
             IF undoStack = << >>
             THEN UNCHANGED << config, undoStack >>
             ELSE /\ config' = undoStack[Len(undoStack)]
                  /\ undoStack' = SubSeq(undoStack, 1, Len(undoStack) - 1) ]_vars

\* C22 witness: after an undo that changed the frame style and a move to the
\* second image, an E has started an export bound to both.
C22_Witness ==
    /\ last = "export.start"
    /\ undone = 1
    /\ Len(editTrail) >= 2
    /\ config.frameStyle # editTrail[Len(editTrail)].frameStyle
    /\ activeIndex = 1
    /\ \E o \in exports :
          /\ o.activeIndex = 1
          /\ o.frameStyle = config.frameStyle
          /\ o.phonePreset = config.phonePreset

(***************************************************************************)
(* Further claims checked under SpecUndo.                                  *)
(***************************************************************************)
\* The nine fields of FrameConfig and the values each can hold.
C21_Fields ==
    { "frameStyle", "theme", "gradient", "padding", "borderRadius",
      "imageScale", "bgColor", "useCustomBg", "phonePreset" }

C21_Complete(c) ==
    /\ DOMAIN c = C21_Fields
    /\ c.frameStyle \in FrameStyle /\ c.theme \in Theme
    /\ c.gradient \in Gradient /\ c.phonePreset \in PhonePreset
    /\ c.padding \in 8..64 /\ c.borderRadius \in 0..32
    /\ c.imageScale \in 50..100
    /\ c.bgColor \in {"#7c3aed", "#000000"} /\ c.useCustomBg \in BOOLEAN

\* c with the fields of the change-set u overwritten, the other fields kept.
C21_Merged(c, u) == [f \in C21_Fields |-> IF f \in DOMAIN u THEN u[f] ELSE c[f]]

\* C21: the configuration, and every entry of the undo history, has all nine
\* fields defined in every state; an edit leaves the merge of its change-set
\* onto the configuration of the moment, whatever control it comes from, so
\* that edits take effect one after the other in the order of the events; an
\* undo leaves a configuration an earlier state had.
C21_MergeKeepsComplete ==
    /\ [](/\ C21_Complete(config)
          /\ \A j \in 1..Len(undoStack) : C21_Complete(undoStack[j])
          /\ \A u \in Updates : ConfigAfterEdit(config, u) = C21_Merged(config, u))
    /\ [][ nEdits' # nEdits =>
             /\ \E u \in UndoUpdates : config' = C21_Merged(config, u)
             /\ editTrail # << >> /\ undone = 0 => editTrail' = Append(editTrail, config')
         ]_vars
    /\ [][ (last' = "undo.key" /\ undoStack # << >>) =>
             config' = undoStack[Len(undoStack)] ]_vars

\* C21 witness: the frame style was edited, then the padding, the second edit
\* was undone and the padding edited again: the frame style of the first edit
\* is kept, the padding is the one of the latest edit, the rest is untouched.
C21_Witness ==
    /\ last = "updateConfig"
    /\ nEdits = 3
    /\ config.frameStyle = "phone"
    /\ config.padding = SliderPadding(2)
    /\ config.padding # DEFAULT_CONFIG.padding
    /\ [config EXCEPT !.frameStyle = "macos", !.padding = 32] = DEFAULT_CONFIG
    /\ Len(undoStack) = 2

(***************************************************************************)
(* Claims checked under SpecLive.                                          *)
(***************************************************************************)
\* The ids export operations can have in a behaviour of SpecLive.
C24_Ids == 1..(LiveEvents + 1)

\* C24: every export operation that is in flight ends, each busy flag that is
\* set is cleared again, and the session comes back to a state with nothing
\* in flight and no busy flag; a batch export runs its iterations over the
\* indices of the batch it was called on, however many images the batch holds
\* by then.
C24_OperationsFinish ==
    /\ \A id \in C24_Ids : (id \in InFlight) ~> (id \notin InFlight)
    /\ exporting ~> ~exporting
    /\ exportingAll ~> ~exportingAll
    /\ copying ~> ~copying
    /\ isBusy ~> (InFlight = {} /\ ~isBusy)
    /\ [](batch.pc # "idle" => batch.i \in 0..(batch.len - 1))
    /\ [][ BatchStarts => batch'.len = Len(imageUrls) /\ batch'.i = 0 ]_vars
    /\ [][ (batch.pc # "idle" /\ batch'.pc # "idle") =>
             /\ batch'.len = batch.len
             /\ batch'.i \in {batch.i, batch.i + 1} ]_vars

\* C24 witness: a batch export over three images has completed with three
\* downloads although images were added while it ran, and the session is idle.
C24_Witness ==
    /\ batchLog.outcome = "completed"
    /\ batchLog.len = 3
    /\ batchLog.changed
    /\ Len(imageUrls) > 3
    /\ Len(DeliveredNames(batchLog.id)) = 3
    /\ InFlight = {} /\ ~isBusy

(***************************************************************************)
(* Further claims checked under SpecLoaded.                                *)
(***************************************************************************)
\* The files the batch export id has delivered so far, oldest first.
C25_Files(id) == SelectSeq(downloads, LAMBDA d : d.op = id /\ d.kind = "batch")

\* C25: an edit made while an export operation is in flight merges its
\* change-set into the configuration in that step, pushes the configuration
\* it replaced onto the undo history and leaves the operation as it is; every
\* file of a batch export is captured with the sizing options of the
\* configuration the batch export started with, whatever was edited since.
C25_EditsDuringExport ==
    /\ [][ (last' = "updateConfig" /\ isBusy) =>
             /\ \E u \in SpecUpdates : config' = C21_Merged(config, u)
             /\ undoStack' = Append(IF Len(undoStack) < UNDO_LIMIT
                                      THEN undoStack ELSE Tail(undoStack), config)
             /\ UNCHANGED exportVars ]_vars
    /\ [][ BatchStarts =>
             /\ batch'.phonePreset = config.phonePreset
             /\ batch'.frameStyle = config.frameStyle ]_vars
    /\ [][ (batch.pc # "idle" /\ batch'.pc # "idle") =>
             /\ batch'.phonePreset = batch.phonePreset
             /\ batch'.frameStyle = batch.frameStyle ]_vars
    /\ [](batch.pc # "idle" =>
            \A j \in 1..Len(C25_Files(batch.id)) :
                C25_Files(batch.id)[j].opts =
                    C5_Requested([ frameStyle |-> batch.frameStyle,
                                   phonePreset |-> batch.phonePreset ]))
    /\ [](\A j, h \in 1..Len(downloads) :
            (downloads[j].op = downloads[h].op /\ downloads[j].kind = "batch") =>
                downloads[j].opts = downloads[h].opts)

\* C25 witness: the two files of one batch export, started on the phone frame
\* with a store format, show different frame styles at the same exact size,
\* and the configuration of the first is on top of the undo history.
C25_Witness ==
    /\ batchLog.outcome = "completed"
    /\ Len(C25_Files(batchLog.id)) = 2
    /\ C25_Files(batchLog.id)[1].shot.config.frameStyle = "phone"
    /\ C25_Files(batchLog.id)[2].shot.config.frameStyle = "tablet"
    /\ C25_Files(batchLog.id)[1].opts.canvasWidth = 1290
    /\ C25_Files(batchLog.id)[2].opts.canvasWidth = 1290
    /\ undoStack # << >>
    /\ undoStack[Len(undoStack)] = C25_Files(batchLog.id)[1].shot.config
    /\ config = C25_Files(batchLog.id)[2].shot.config

\* C29: while a busy flag is set neither the Undo button nor Ctrl/Cmd+Z
\* changes the configuration or the undo history.
C29_NoUndoWhileBusy ==
    [][ (isBusy /\ last' \in {"undo.key", "undo.button"}) =>
          UNCHANGED << config, undoStack >> ]_vars

(***************************************************************************)
(* Further claims checked under SpecNav.                                   *)
(***************************************************************************)
\* C27: as long as the batch is the one the batch export started on, the
\* capture of iteration i shows the image at index i, and every file the
\* export has delivered shows the image at the position in its name, whatever
\* the user navigated to in between.
C27_FileShowsItsIndex ==
    (batch.pc # "idle" /\ ~batch.changed) =>
        /\ batch.pc = "capturing" => batch.shot.image = imageUrls[batch.i + 1]
        /\ \A j \in 1..Len(C25_Files(batch.id)) :
               C25_Files(batch.id)[j].shot.image =
                   imageUrls[C25_Files(batch.id)[j].name[2]]

(***************************************************************************)
(* Claims checked under SpecGuard.                                         *)
(***************************************************************************)
\* The labels of the steps in which an export handler is called.
C28_Calls ==
    { "export.start", "export.noop", "exportAll.start", "exportAll.noop",
      "copy.start", "copy.noop" }

\* C28: a call of handleExport, handleExportAll or handleCopyToClipboard made
\* while the batch is empty or no preview is mounted changes nothing: no busy
\* flag, no operation in flight, no download, no clipboard content, the same
\* activeIndex; a call made with a preview and a non-empty batch starts an
\* operation.
C28_NoOpWithoutPreview ==
    [][ last' \in C28_Calls =>
          IF Len(imageUrls) = 0 \/ ~(0 <= activeIndex /\ activeIndex < Len(imageUrls))
          THEN /\ last' \in {"export.noop", "exportAll.noop", "copy.noop"}
               /\ UNCHANGED << exporting, exportingAll, copying, exports, batch, copy,
                               downloads, clipboard, nOps, activeIndex, imageUrls >>
          ELSE /\ last' \in {"export.start", "exportAll.start", "copy.start"}
               /\ nOps' = nOps + 1
               /\ isBusy' ]_vars

\* C28 witness: "All (2)" was clicked while activeIndex designates none of
\* the two images, and nothing happened.
C28_Witness ==
    /\ last = "exportAll.noop"
    /\ Len(imageUrls) = 2
    /\ activeIndex = 2
    /\ ~isBusy /\ InFlight = {}
    /\ batchLog.outcome # "none"
    /\ nOps = 1

====
